---- MODULE Spec2Model ----
(***************************************************************************)
(* Model of the quick_input crate (src/quick_input/src/lib.rs): one call   *)
(* of one read_* function on the process-wide standard streams (Spec),     *)
(* and two threads calling at the same time on those streams (ThreadSpec). *)
(*                                                                         *)
(* Text is a sequence of one-character strings.  A line delivered by       *)
(* stdin is the raw text read_line appends, terminator included.           *)
(* Integer values are kept as canonical decimal digit strings so that the  *)
(* 64- and 128-bit ranges are exact; a float value is an exact decimal     *)
(* (sign, mantissa digits, power of ten) or one of inf / nan.              *)
(***************************************************************************)
EXTENDS Integers, Sequences, FiniteSets

VARIABLES reader, msg, err_msg, input, pc, ret, panic, out, flushed,
          lastFlush, lastRead, lastLine, reads, consumed,
          threads, stdout, stdout_flushed, stdin, answers

(* The state of the single call of Spec. *)
single == <<reader, msg, err_msg, input, pc, ret, panic, out, flushed,
            lastFlush, lastRead, lastLine, reads, consumed>>

(* The state of the two threads of ThreadSpec, of the streams they share   *)
(* and of the user at the terminal.                                        *)
shared == <<threads, stdout, stdout_flushed, stdin, answers>>

vars == <<single, shared>>

(* Number of read_line calls one modelled call may make. *)
MaxReads == 3

----------------------------------------------------------------------------
(* Text helpers: str::trim, str::replace, str::to_lowercase.               *)

Digits == <<"0", "1", "2", "3", "4", "5", "6", "7", "8", "9">>

DigitChars == {Digits[i] : i \in 1..10}

DigitVal(c) == (CHOOSE i \in 1..10 : Digits[i] = c) - 1

UpperCase == <<"A", "B", "C", "D", "E", "F", "G", "H", "I", "J", "K", "L", "M",
               "N", "O", "P", "Q", "R", "S", "T", "U", "V", "W", "X", "Y", "Z">>

LowerCase == <<"a", "b", "c", "d", "e", "f", "g", "h", "i", "j", "k", "l", "m",
               "n", "o", "p", "q", "r", "s", "t", "u", "v", "w", "x", "y", "z">>

(* Whitespace without the carriage return. *)
WhiteSpaceNoCR == {" ", "\t", "\n"}

WhiteSpace == {" ", "\t", "\n", "\r"}

(* No trimming at the start. *)
TrimStartNone(s) == s

RECURSIVE TrimStart(_)
TrimStart(s) ==
    IF s # <<>> /\ Head(s) \in WhiteSpace THEN TrimStart(Tail(s)) ELSE s

RECURSIVE TrimEnd(_)
TrimEnd(s) ==
    IF s # <<>> /\ s[Len(s)] \in WhiteSpace
    THEN TrimEnd(SubSeq(s, 1, Len(s) - 1))
    ELSE s

(* Trimming at the end only. *)
TrimEndOnly(s) == TrimEnd(s)

Trim(s) == TrimEnd(TrimStart(s))

Replace(s, from, to) == [i \in 1..Len(s) |-> IF s[i] = from THEN to ELSE s[i]]

LowerChar(c) ==
    IF \E i \in 1..26 : UpperCase[i] = c
    THEN LowerCase[CHOOSE i \in 1..26 : UpperCase[i] = c]
    ELSE c

ToLowercase(s) == [i \in 1..Len(s) |-> LowerChar(s[i])]

AllDigits(s) == \A i \in 1..Len(s) : s[i] \in DigitChars

RECURSIVE StripZeros(_)
StripZeros(s) ==
    IF Len(s) > 1 /\ Head(s) = "0" THEN StripZeros(Tail(s)) ELSE s

RECURSIVE StripTrailingZeros(_)
StripTrailingZeros(s) ==
    IF Len(s) > 1 /\ s[Len(s)] = "0"
    THEN StripTrailingZeros(SubSeq(s, 1, Len(s) - 1))
    ELSE s

(* Position of the first character of s that is in cs, 0 when none. *)
FirstIn(s, cs) ==
    IF \E i \in 1..Len(s) : s[i] \in cs
    THEN CHOOSE i \in 1..Len(s) : s[i] \in cs /\ \A j \in 1..(i - 1) : s[j] \notin cs
    ELSE 0

----------------------------------------------------------------------------
(* Values and parse results.                                               *)

Value(k, n, t, e) == [kind |-> k, neg |-> n, text |-> t, exp |-> e]

NoValue == Value("none", FALSE, <<>>, 0)

Ok(v) == [ok |-> TRUE, val |-> v]

Err == [ok |-> FALSE, val |-> NoValue]

(* 2^w as a decimal digit string, for the limits of the integer types:     *)
(* iN covers -2^(N-1) .. 2^(N-1) - 1 and uN covers 0 .. 2^N - 1.           *)
Widths == {7, 8, 15, 16, 31, 32, 63, 64, 127, 128}

Pow2Table ==
    [w \in Widths |->
        CASE w = 7 -> <<"1", "2", "8">>
          [] w = 8 -> <<"2", "5", "6">>
          [] w = 15 -> <<"3", "2", "7", "6", "8">>
          [] w = 16 -> <<"6", "5", "5", "3", "6">>
          [] w = 31 -> <<"2", "1", "4", "7", "4", "8", "3", "6", "4", "8">>
          [] w = 32 -> <<"4", "2", "9", "4", "9", "6", "7", "2", "9", "6">>
          [] w = 63 -> <<"9", "2", "2", "3", "3", "7", "2", "0", "3", "6", "8", "5", "4", "7", "7", "5", "8", "0", "8">>
          [] w = 64 -> <<"1", "8", "4", "4", "6", "7", "4", "4", "0", "7", "3", "7", "0", "9", "5", "5", "1", "6", "1", "6">>
          [] w = 127 -> <<"1", "7", "0", "1", "4", "1", "1", "8", "3", "4", "6", "0", "4", "6", "9", "2", "3", "1", "7", "3", "1", "6", "8", "7", "3", "0", "3", "7", "1", "5", "8", "8", "4", "1", "0", "5", "7", "2", "8">>
          [] w = 128 -> <<"3", "4", "0", "2", "8", "2", "3", "6", "6", "9", "2", "0", "9", "3", "8", "4", "6", "3", "4", "6", "3", "3", "7", "4", "6", "0", "7", "4", "3", "1", "7", "6", "8", "2", "1", "1", "4", "5", "6">>]

(* a < b for canonical digit strings (no leading zeros). *)
RECURSIVE LexLess(_, _)
LexLess(a, b) ==
    IF a = <<>> THEN FALSE
    ELSE IF DigitVal(Head(a)) # DigitVal(Head(b))
         THEN DigitVal(Head(a)) < DigitVal(Head(b))
         ELSE LexLess(Tail(a), Tail(b))

DigitsLess(a, b) ==
    IF Len(a) # Len(b) THEN Len(a) < Len(b) ELSE LexLess(a, b)

----------------------------------------------------------------------------
(* The parsers of the standard library the readers call: str::parse for    *)
(* the integer types, f32 / f64, and bool.                                 *)

(* str::parse::<iN / uN>: optional '+', optional '-' for a signed type,    *)
(* then one or more decimal digits, the value inside the type's range.     *)
ParseInt(s, signed, bits) ==
    LET neg  == s # <<>> /\ Head(s) = "-" /\ signed
        body == IF s # <<>> /\ (Head(s) = "+" \/ neg) THEN Tail(s) ELSE s
        mag  == StripZeros(body)
        fits == IF ~signed THEN DigitsLess(mag, Pow2Table[bits])
                ELSE IF neg THEN ~DigitsLess(Pow2Table[bits - 1], mag)
                ELSE DigitsLess(mag, Pow2Table[bits - 1])
    IN  IF body = <<>> \/ ~AllDigits(body) \/ ~fits THEN Err
        ELSE Ok(Value("int", neg /\ mag # <<"0">>, mag, 0))

RECURSIVE DecimalNat(_)
DecimalNat(s) ==
    IF s = <<>> THEN 0
    ELSE 10 * DecimalNat(SubSeq(s, 1, Len(s) - 1)) + DigitVal(s[Len(s)])

(* Exact decimal mant * 10^e in canonical form: no leading zeros, no       *)
(* trailing zeros in the mantissa, zero as 0 * 10^0 (its sign is kept).    *)
FloatValue(neg, mant, e) ==
    LET m == StripZeros(mant)
        c == StripTrailingZeros(m)
    IN  IF m = <<"0">> THEN Value("float", neg, m, 0)
        ELSE Value("float", neg, c, e + (Len(m) - Len(c)))

(* str::parse::<f32 / f64>: optional sign, then inf / infinity / nan in    *)
(* any case, or digits with at most one '.', at least one digit, and an    *)
(* optional exponent 'e' / 'E' with optional sign and at least one digit.  *)
ParseFloat(s) ==
    LET signedp == s # <<>> /\ Head(s) \in {"+", "-"}
        neg     == s # <<>> /\ Head(s) = "-"
        body    == IF signedp THEN Tail(s) ELSE s
        word    == ToLowercase(body)
        epos    == FirstIn(body, {"e", "E"})
        number  == IF epos = 0 THEN body ELSE SubSeq(body, 1, epos - 1)
        expo    == IF epos = 0 THEN <<>> ELSE SubSeq(body, epos + 1, Len(body))
        eneg    == expo # <<>> /\ Head(expo) = "-"
        edigits == IF expo # <<>> /\ Head(expo) \in {"+", "-"} THEN Tail(expo) ELSE expo
        dot     == FirstIn(number, {"."})
        ipart   == IF dot = 0 THEN number ELSE SubSeq(number, 1, dot - 1)
        fpart   == IF dot = 0 THEN <<>> ELSE SubSeq(number, dot + 1, Len(number))
        e       == IF epos = 0 THEN 0
                   ELSE IF eneg THEN 0 - DecimalNat(edigits) ELSE DecimalNat(edigits)
    IN  IF word \in {<<"i", "n", "f">>, <<"i", "n", "f", "i", "n", "i", "t", "y">>}
        THEN Ok(Value("inf", neg, <<>>, 0))
        ELSE IF word = <<"n", "a", "n">>
        THEN Ok(Value("nan", neg, <<>>, 0))
        ELSE IF \/ ~AllDigits(ipart) \/ ~AllDigits(fpart)
                \/ ipart \o fpart = <<>>
                \/ (epos # 0 /\ (edigits = <<>> \/ ~AllDigits(edigits)))
        THEN Err
        ELSE Ok(FloatValue(neg, ipart \o fpart, e - Len(fpart)))

(* str::parse::<bool>: exactly "true" or "false". *)
ParseBool(s) ==
    IF s = <<"t", "r", "u", "e">> THEN Ok(Value("bool", FALSE, <<"true">>, 0))
    ELSE IF s = <<"f", "a", "l", "s", "e">> THEN Ok(Value("bool", FALSE, <<"false">>, 0))
    ELSE Err

----------------------------------------------------------------------------
(* The public functions and their per-type parameters.                     *)

SignedReaders == {"read_i8", "read_i16", "read_i32", "read_i64", "read_i128", "read_isize"}

UnsignedReaders == {"read_u8", "read_u16", "read_u32", "read_u64", "read_u128", "read_usize"}

IntReaders == SignedReaders \cup UnsignedReaders

FloatReaders == {"read_f32", "read_f64"}

StringReaders == {"read_string", "read_string_untrimmed"}

Readers == IntReaders \cup FloatReaders \cup StringReaders \cup {"read_char", "read_bool"}

(* The readers built on the while loop; the string readers and read_char   *)
(* read once.                                                              *)
LoopReaders == IntReaders \cup FloatReaders \cup {"read_bool"}

(* isize / usize on a 64-bit target. *)
PtrBits == 64

Bits(r) ==
    CASE r \in {"read_i8", "read_u8"} -> 8
      [] r \in {"read_i16", "read_u16"} -> 16
      [] r \in {"read_i32", "read_u32"} -> 32
      [] r \in {"read_i64", "read_u64"} -> 64
      [] r \in {"read_i128", "read_u128"} -> 128
      [] r \in {"read_isize", "read_usize"} -> PtrBits

DefaultError(r) ==
    CASE r = "read_i8" -> "Please enter a valid number (8 bits)."
      [] r = "read_i16" -> "Please enter a valid number (16 bits)."
      [] r = "read_i32" -> "Please enter a valid number (32 bits)."
      [] r = "read_i64" -> "Please enter a valid number (64 bits)."
      [] r = "read_i128" -> "Please enter a valid number (128 bits)."
      [] r = "read_isize" -> "Please enter a valid number (32/64 bits)."
      [] r = "read_u8" -> "Please enter a valid positive number (8 bits)."
      [] r = "read_u16" -> "Please enter a valid positive number (16 bits)."
      [] r = "read_u32" -> "Please enter a valid positive number (32 bits)."
      [] r = "read_u64" -> "Please enter a valid positive number (64 bits)."
      [] r = "read_u128" -> "Please enter a valid positive number (128 bits)."
      [] r = "read_usize" -> "Please enter a valid positive number (32/64 bits)."
      [] r = "read_f32" -> "Please enter a valid real number (32 bits)."
      [] r = "read_f64" -> "Please enter a valid real number (64 bits)."
      [] r = "read_bool" -> "Please enter a valid boolean value (true / false)."

(* Option<&str> arguments. *)
None == [some |-> FALSE, text |-> ""]

Some(s) == [some |-> TRUE, text |-> s]

Prompts == {None, Some("Enter: ")}

ErrMsgs == {None, Some("X")}

(* Lines typed to the integer readers: the limits of every width, signs, junk. *)
IntLines ==
    { <<"\n">>,
      <<"h", "e", "l", "l", "o", "\n">>,
      <<"1", "2", "a", "\n">>,
      <<"1", "2", ".", "3", "\n">>,
      <<"0", "\n">>,
      <<"-", "0", "\n">>,
      <<"+", "5", "\n">>,
      <<"-", "5", "\n">>,
      <<"-", "1", "\n">>,
      <<" ", "4", "2", " ", "\r", "\n">>,
      <<"7">>,
      <<"1", "2", "7", "\n">>,
      <<"1", "2", "8", "\n">>,
      <<"-", "1", "2", "8", "\n">>,
      <<"-", "1", "2", "9", "\n">>,
      <<"2", "5", "5", "\n">>,
      <<"2", "5", "6", "\n">>,
      <<"3", "2", "7", "6", "7", "\n">>,
      <<"3", "2", "7", "6", "8", "\n">>,
      <<"-", "3", "2", "7", "6", "8", "\n">>,
      <<"-", "3", "2", "7", "6", "9", "\n">>,
      <<"6", "5", "5", "3", "5", "\n">>,
      <<"6", "5", "5", "3", "6", "\n">>,
      <<"2", "1", "4", "7", "4", "8", "3", "6", "4", "7", "\n">>,
      <<"2", "1", "4", "7", "4", "8", "3", "6", "4", "8", "\n">>,
      <<"-", "2", "1", "4", "7", "4", "8", "3", "6", "4", "8", "\n">>,
      <<"-", "2", "1", "4", "7", "4", "8", "3", "6", "4", "9", "\n">>,
      <<"3", "0", "0", "0", "0", "0", "0", "0", "0", "0", "\n">>,
      <<"4", "2", "9", "4", "9", "6", "7", "2", "9", "5", "\n">>,
      <<"4", "2", "9", "4", "9", "6", "7", "2", "9", "6", "\n">>,
      <<"9", "2", "2", "3", "3", "7", "2", "0", "3", "6", "8", "5", "4", "7", "7", "5", "8", "0", "7", "\n">>,
      <<"9", "2", "2", "3", "3", "7", "2", "0", "3", "6", "8", "5", "4", "7", "7", "5", "8", "0", "8", "\n">>,
      <<"-", "9", "2", "2", "3", "3", "7", "2", "0", "3", "6", "8", "5", "4", "7", "7", "5", "8", "0", "8", "\n">>,
      <<"-", "9", "2", "2", "3", "3", "7", "2", "0", "3", "6", "8", "5", "4", "7", "7", "5", "8", "0", "9", "\n">>,
      <<"1", "8", "4", "4", "6", "7", "4", "4", "0", "7", "3", "7", "0", "9", "5", "5", "1", "6", "1", "5", "\n">>,
      <<"1", "8", "4", "4", "6", "7", "4", "4", "0", "7", "3", "7", "0", "9", "5", "5", "1", "6", "1", "6", "\n">>,
      <<"1", "7", "0", "1", "4", "1", "1", "8", "3", "4", "6", "0", "4", "6", "9", "2", "3", "1", "7", "3", "1", "6", "8", "7", "3", "0", "3", "7", "1", "5", "8", "8", "4", "1", "0", "5", "7", "2", "7", "\n">>,
      <<"1", "7", "0", "1", "4", "1", "1", "8", "3", "4", "6", "0", "4", "6", "9", "2", "3", "1", "7", "3", "1", "6", "8", "7", "3", "0", "3", "7", "1", "5", "8", "8", "4", "1", "0", "5", "7", "2", "8", "\n">>,
      <<"-", "1", "7", "0", "1", "4", "1", "1", "8", "3", "4", "6", "0", "4", "6", "9", "2", "3", "1", "7", "3", "1", "6", "8", "7", "3", "0", "3", "7", "1", "5", "8", "8", "4", "1", "0", "5", "7", "2", "8", "\n">>,
      <<"-", "1", "7", "0", "1", "4", "1", "1", "8", "3", "4", "6", "0", "4", "6", "9", "2", "3", "1", "7", "3", "1", "6", "8", "7", "3", "0", "3", "7", "1", "5", "8", "8", "4", "1", "0", "5", "7", "2", "9", "\n">>,
      <<"3", "4", "0", "2", "8", "2", "3", "6", "6", "9", "2", "0", "9", "3", "8", "4", "6", "3", "4", "6", "3", "3", "7", "4", "6", "0", "7", "4", "3", "1", "7", "6", "8", "2", "1", "1", "4", "5", "5", "\n">>,
      <<"3", "4", "0", "2", "8", "2", "3", "6", "6", "9", "2", "0", "9", "3", "8", "4", "6", "3", "4", "6", "3", "3", "7", "4", "6", "0", "7", "4", "3", "1", "7", "6", "8", "2", "1", "1", "4", "5", "6", "\n">> }

(* Lines typed to read_f32 / read_f64. *)
FloatLines ==
    { <<"\n">>,
      <<"a", "b", "c", "\n">>,
      <<"1", "2", ".", "3", "\n">>,
      <<"1", "2", ",", "3", "\n">>,
      <<" ", "1", "2", ",", "3", " ", "\r", "\n">>,
      <<"1", "2", ".", "3", "0", "\n">>,
      <<"1", ",", "2", ",", "3", "\n">>,
      <<"1", ".", "2", ".", "3", "\n">>,
      <<"1", "0", "0", "\n">>,
      <<"1", "e", "2", "\n">>,
      <<"1", "E", "-", "2", "\n">>,
      <<"1", "e", "\n">>,
      <<".", "5", "\n">>,
      <<"5", ".", "\n">>,
      <<".", "\n">>,
      <<",", "\n">>,
      <<"-", "0", ",", "5", "0", "\n">>,
      <<"+", "7", "\n">>,
      <<"i", "n", "f", "\n">>,
      <<"-", "I", "n", "f", "i", "n", "i", "t", "y", "\n">>,
      <<"N", "a", "N", "\n">>,
      <<"7">> }

(* Lines typed to read_bool. *)
BoolLines ==
    { <<"\n">>,
      <<"t", "r", "u", "e", "\n">>,
      <<"T", "r", "u", "e", "\n">>,
      <<"T", "R", "U", "E", "\n">>,
      <<"t", "R", "u", "E", "\n">>,
      <<" ", "t", "r", "u", "e", " ", "\r", "\n">>,
      <<"f", "a", "l", "s", "e", "\n">>,
      <<"F", "A", "L", "S", "E", "\n">>,
      <<"f", "A", "l", "S", "e", "\n">>,
      <<"y", "e", "s", "\n">>,
      <<"1", "\n">>,
      <<"t", "r", "u", "e", "e", "\n">>,
      <<"t", " ", "r", "u", "e", "\n">>,
      <<"t", "r", "u", "e">> }

(* Lines typed to read_char, read_string and read_string_untrimmed. *)
TextLines ==
    { <<"\n">>,
      <<" ", " ", "\n">>,
      <<"\t", "\r", "\n">>,
      <<"h", "e", "l", "l", "o", "\n">>,
      <<"h", "\n">>,
      <<" ", "x", " ", "y", " ", "\r", "\n">>,
      <<"H", "e", "l", "l", "o", " ", "W", "o", "r", "l", "d", "\n">>,
      <<"Z">>,
      <<"1", "2", ",", "3", "\n">> }

LinesFor(r) ==
    CASE r \in IntReaders -> IntLines
      [] r \in FloatReaders -> FloatLines
      [] r = "read_bool" -> BoolLines
      [] OTHER -> TextLines

----------------------------------------------------------------------------
(* The conditions and conversions of the read_* functions.                 *)

(* The parse in the while condition; it differs between the prompt and the *)
(* no-prompt branch in read_u32, read_f32 and read_f64.                    *)
WhileParse(r, m, inp) ==
    CASE r = "read_u32" /\ ~m.some -> ParseInt(Trim(inp), TRUE, 32)
      [] r \in FloatReaders /\ ~m.some -> ParseFloat(Trim(inp))
      [] r \in FloatReaders /\ m.some -> ParseFloat(Trim(Replace(inp, ",", ".")))
      [] r = "read_bool" -> ParseBool(Trim(inp))
      [] OTHER -> ParseInt(Trim(inp), r \in SignedReaders, Bits(r))

(* The parse in the if that guards show_error_message. *)
IfParse(r, m, inp) ==
    CASE r = "read_u32" /\ ~m.some -> ParseInt(Trim(inp), TRUE, 32)
      [] r \in FloatReaders -> ParseFloat(Trim(Replace(inp, ",", ".")))
      [] r = "read_bool" -> ParseBool(inp)
      [] OTHER -> ParseInt(Trim(inp), r \in SignedReaders, Bits(r))

(* read_bool without the case fold. *)
BoolNormalizeNoFold(inp) == Trim(inp)

(* read_bool: input = input.trim().to_lowercase() *)
BoolNormalize(inp) == ToLowercase(Trim(inp))

(* The last expression with unwrap_or_default() in place of unwrap(). *)
FinalParseOrDefault(r, inp) ==
    LET p == CASE r \in IntReaders -> ParseInt(Trim(inp), r \in SignedReaders, Bits(r))
               [] r \in FloatReaders -> ParseFloat(Trim(Replace(inp, ",", ".")))
               [] r = "read_bool" -> ParseBool(Trim(inp))
               [] r = "read_char" ->
                     IF Trim(inp) = <<>> THEN Err
                     ELSE Ok(Value("char", FALSE, <<Head(Trim(inp))>>, 0))
               [] r = "read_string" -> Ok(Value("string", FALSE, Trim(inp), 0))
               [] r = "read_string_untrimmed" -> Ok(Value("string", FALSE, inp, 0))
        d == CASE r \in IntReaders -> Value("int", FALSE, <<"0">>, 0)
               [] r \in FloatReaders -> Value("float", FALSE, <<"0">>, 0)
               [] r = "read_bool" -> Value("bool", FALSE, <<"false">>, 0)
               [] OTHER -> Value("char", FALSE, <<"NUL">>, 0)
    IN  IF p.ok THEN p ELSE Ok(d)

(* The expression each function ends with; not ok where its unwrap panics. *)
FinalParse(r, inp) ==
    CASE r \in IntReaders -> ParseInt(Trim(inp), r \in SignedReaders, Bits(r))
      [] r \in FloatReaders -> ParseFloat(Trim(Replace(inp, ",", ".")))
      [] r = "read_bool" -> ParseBool(Trim(inp))
      [] r = "read_char" ->
            IF Trim(inp) = <<>> THEN Err
            ELSE Ok(Value("char", FALSE, <<Head(Trim(inp))>>, 0))
      [] r = "read_string" -> Ok(Value("string", FALSE, Trim(inp), 0))
      [] r = "read_string_untrimmed" -> Ok(Value("string", FALSE, inp, 0))

(* What print! and println! hand to stdout. *)
WriteText(t) == [op |-> "print", text |-> t]

WriteLine(t) == [op |-> "println", text |-> t]

(* show_error_message that ignores the caller's text. *)
show_error_message_default(e, def_err_msg) ==
    <<WriteLine(<<def_err_msg>>), WriteLine(<<"---">>)>>

show_error_message(e, def_err_msg) ==
    IF e.some
    THEN <<WriteLine(<<e.text>>), WriteLine(<<"---">>)>>
    ELSE <<WriteLine(<<def_err_msg>>), WriteLine(<<"---">>)>>

----------------------------------------------------------------------------
(* One call.  pc is the position inside the function:                      *)
(*   while  evaluating the loop condition      body   top of the loop body *)
(*   flush  inside flush_and_read, at flush    read   at read_line         *)
(*   check  after flush_and_read in the loop   final  the last expression  *)
(*   done   returned                           panic  unwound              *)

(* Spec runs one call and no threads. *)
NoThreads ==
    /\ threads = <<>>
    /\ stdout = <<>>
    /\ stdout_flushed = 0
    /\ stdin = <<>>
    /\ answers = <<>>

Init ==
    /\ NoThreads
    /\ reader \in Readers
    /\ msg \in Prompts
    /\ err_msg \in (IF reader \in LoopReaders THEN ErrMsgs ELSE {None})
    /\ input = IF reader = "read_char" THEN <<".">> ELSE <<>>
    /\ pc = IF reader \in LoopReaders THEN "while" ELSE "body"
    /\ ret = NoValue
    /\ panic = "none"
    /\ out = <<>>
    /\ flushed = 0
    /\ lastFlush = "none"
    /\ lastRead = "none"
    /\ lastLine = <<>>
    /\ reads = 0
    /\ consumed = 0

(* while <parse>.is_err() *)
WhileTest ==
    /\ pc = "while"
    /\ pc' = IF WhileParse(reader, msg, input).ok THEN "final" ELSE "body"
    /\ UNCHANGED <<reader, msg, err_msg, input, ret, panic, out, flushed,
                   lastFlush, lastRead, lastLine, reads, consumed>>
    /\ UNCHANGED shared

(* The loop body with the prompt written on the first attempt only. *)
BodyPromptOnce ==
    /\ pc = "body"
    /\ reads < MaxReads
    /\ input' = IF reader \in StringReaders THEN input ELSE <<>>
    /\ out' = IF msg.some /\ reads = 0 THEN Append(out, WriteText(<<msg.text>>)) ELSE out
    /\ pc' = "flush"
    /\ UNCHANGED <<reader, msg, err_msg, ret, panic, flushed,
                   lastFlush, lastRead, lastLine, reads, consumed>>
    /\ UNCHANGED shared

(* The loop body without input.clear(). *)
BodyNoClear ==
    /\ pc = "body"
    /\ reads < MaxReads
    /\ out' = IF msg.some THEN Append(out, WriteText(<<msg.text>>)) ELSE out
    /\ pc' = "flush"
    /\ UNCHANGED <<reader, msg, err_msg, input, ret, panic, flushed,
                   lastFlush, lastRead, lastLine, reads, consumed>>
    /\ UNCHANGED shared

(* input.clear(); print!("{}", msg.unwrap()) when a prompt is given, up to *)
(* the call of flush_and_read.  The string readers do not clear.           *)
Body ==
    /\ pc = "body"
    /\ reads < MaxReads
    /\ input' = IF reader \in StringReaders THEN input ELSE <<>>
    /\ out' = IF msg.some THEN Append(out, WriteText(<<msg.text>>)) ELSE out
    /\ pc' = "flush"
    /\ UNCHANGED <<reader, msg, err_msg, ret, panic, flushed,
                   lastFlush, lastRead, lastLine, reads, consumed>>
    /\ UNCHANGED shared

(* flush_and_read going to read_line without flushing. *)
FlushSkipped ==
    /\ pc = "flush"
    /\ pc' = "read"
    /\ UNCHANGED <<reader, msg, err_msg, input, ret, panic, out, flushed,
                   lastFlush, lastRead, lastLine, reads, consumed>>
    /\ UNCHANGED shared

(* io::stdout().flush().unwrap() *)
FlushOk ==
    /\ pc = "flush"
    /\ lastFlush' = "ok"
    /\ flushed' = Len(out)
    /\ pc' = "read"
    /\ UNCHANGED <<reader, msg, err_msg, input, ret, panic, out,
                   lastRead, lastLine, reads, consumed>>
    /\ UNCHANGED shared

FlushFail ==
    /\ pc = "flush"
    /\ lastFlush' = "fail"
    /\ panic' = "flush"
    /\ pc' = "panic"
    /\ UNCHANGED <<reader, msg, err_msg, input, ret, out, flushed,
                   lastRead, lastLine, reads, consumed>>
    /\ UNCHANGED shared

(* Every reader validating what it read. *)
AfterReadValidating(r) == "check"

AfterRead(r) == IF r \in LoopReaders THEN "check" ELSE "final"

(* io::stdin().read_line(input) returns Ok(n), n > 0: a line is appended. *)
ReadLine ==
    /\ pc = "read"
    /\ \E l \in LinesFor(reader) :
          /\ input' = input \o l
          /\ lastLine' = l
    /\ lastRead' = "line"
    /\ reads' = reads + 1
    /\ consumed' = consumed + 1
    /\ pc' = AfterRead(reader)
    /\ UNCHANGED <<reader, msg, err_msg, ret, panic, out, flushed, lastFlush>>
    /\ UNCHANGED shared

(* read_line returns Ok(0) at end of stream: nothing is appended and the   *)
(* expect does not fire.                                                   *)
ReadEof ==
    /\ pc = "read"
    /\ lastRead' = "eof"
    /\ lastLine' = <<>>
    /\ reads' = reads + 1
    /\ pc' = AfterRead(reader)
    /\ UNCHANGED <<reader, msg, err_msg, input, ret, panic, out, flushed,
                   lastFlush, consumed>>
    /\ UNCHANGED shared

(* read_line returns Err and the result is dropped instead of expected. *)
ReadErrIgnored ==
    /\ pc = "read"
    /\ lastRead' = "err"
    /\ lastLine' = <<>>
    /\ reads' = reads + 1
    /\ pc' = AfterRead(reader)
    /\ UNCHANGED <<reader, msg, err_msg, input, ret, panic, out, flushed,
                   lastFlush, consumed>>
    /\ UNCHANGED shared

(* read_line returns Err: .expect("Unable to read from stdin.") panics. *)
ReadErr ==
    /\ pc = "read"
    /\ lastRead' = "err"
    /\ lastLine' = <<>>
    /\ reads' = reads + 1
    /\ panic' = "read"
    /\ pc' = "panic"
    /\ UNCHANGED <<reader, msg, err_msg, input, ret, out, flushed,
                   lastFlush, consumed>>
    /\ UNCHANGED shared

(* The rest of the loop body after flush_and_read: read_bool normalises    *)
(* the buffer (and prints it in its no-prompt branch), then the if calls   *)
(* show_error_message.  println! ends in a newline, which the line-        *)
(* buffered stdout writes through.                                         *)
Check ==
    /\ pc = "check"
    /\ LET inp  == IF reader = "read_bool" THEN BoolNormalize(input) ELSE input
           echo == IF reader = "read_bool" /\ ~msg.some THEN <<WriteLine(inp)>> ELSE <<>>
           shown == IF IfParse(reader, msg, inp).ok THEN <<>>
                    ELSE show_error_message(err_msg, DefaultError(reader))
       IN  /\ input' = inp
           /\ out' = out \o echo \o shown
           /\ flushed' = IF echo \o shown = <<>> THEN flushed ELSE Len(out')
    /\ pc' = "while"
    /\ UNCHANGED <<reader, msg, err_msg, ret, panic,
                   lastFlush, lastRead, lastLine, reads, consumed>>
    /\ UNCHANGED shared

(* The last expression: the value is returned, or unwrap panics. *)
Final ==
    /\ pc = "final"
    /\ LET r == FinalParse(reader, input)
       IN  IF r.ok
           THEN /\ ret' = r.val
                /\ pc' = "done"
                /\ panic' = panic
           ELSE /\ ret' = ret
                /\ pc' = "panic"
                /\ panic' = "unwrap"
    /\ UNCHANGED <<reader, msg, err_msg, input, out, flushed,
                   lastFlush, lastRead, lastLine, reads, consumed>>
    /\ UNCHANGED shared

Next ==
    \/ WhileTest
    \/ Body
    \/ FlushOk
    \/ FlushFail
    \/ ReadLine
    \/ ReadEof
    \/ ReadErr
    \/ Check
    \/ Final

Spec == Init /\ [][Next]_vars

----------------------------------------------------------------------------
(* What the specification says of a line: the normalisation of the type    *)
(* family (trim, ',' to '.', lower case) followed by the parse of the      *)
(* reader's own type.                                                      *)

Normalized(r, line) ==
    CASE r \in FloatReaders -> Trim(Replace(line, ",", "."))
      [] r = "read_bool" -> ToLowercase(Trim(line))
      [] r = "read_string_untrimmed" -> line
      [] OTHER -> Trim(line)

TypeParse(r, line) ==
    LET n == Normalized(r, line)
    IN  CASE r \in IntReaders -> ParseInt(n, r \in SignedReaders, Bits(r))
          [] r \in FloatReaders -> ParseFloat(n)
          [] r = "read_bool" -> ParseBool(n)
          [] r = "read_char" ->
                IF n = <<>> THEN Err ELSE Ok(Value("char", FALSE, <<Head(n)>>, 0))
          [] OTHER -> Ok(Value("string", FALSE, n, 0))

ValidFor(r, line) == TypeParse(r, line).ok

ValidatingReaders == IntReaders \cup FloatReaders \cup {"read_bool", "read_char"}

(* The call has gone round for another line. *)
Retrying == pc \in {"body", "flush", "read"} \/ panic \in {"flush", "read"}

(* The call has left the loop with the last line, or returned. *)
Accepted == pc \in {"final", "done"}

(* The last line was taken: no further line is asked for, nothing unwinds, *)
(* and the value returned is v.                                            *)
TakenAs(v) == ~Retrying /\ panic = "none" /\ (pc = "done" => ret = v)

(* The last line was refused: the call neither returns nor unwinds on it. *)
Refused == pc # "done" /\ panic # "unwrap"

(* C1: a validating reader that has consumed a line valid for its type     *)
(* reads no further line and returns the value parsed from that line; one  *)
(* that has consumed an invalid line does not end on it.                   *)
C1_RetryInvariant ==
    (reader \in ValidatingReaders /\ lastRead = "line") =>
        IF ValidFor(reader, lastLine)
        THEN TakenAs(TypeParse(reader, lastLine).val)
        ELSE Refused

(* C2: no reader unwinds at its final parse / unwrap. *)
C2_NoUnwind == panic # "unwrap"

HasComma(line) == \E i \in 1..Len(line) : line[i] = ","

(* C4: in read_f32 / read_f64 a line with ',' as separator is taken on the *)
(* iteration it is read, with the value of the same line written with '.', *)
(* and refused when that line has more than one decimal point.             *)
C4_SeparatorTolerance ==
    (reader \in FloatReaders /\ lastRead = "line" /\ HasComma(lastLine)) =>
        LET dotted == ParseFloat(Trim(Replace(lastLine, ",", ".")))
        IN  IF dotted.ok
            THEN TakenAs(dotted.val)
            ELSE ~Accepted /\ Refused

(* C5: read_char does not end on a line that is empty after trimming. *)
C5_CharEmptyLineRetries ==
    (reader = "read_char" /\ lastRead = "line" /\ Trim(lastLine) = <<>>) => Refused

(* C6: read_u32 takes a line exactly when its trimmed content parses as    *)
(* u32, in both prompt modes.                                              *)
C6_U32UnsignedParser ==
    (reader = "read_u32" /\ lastRead = "line") =>
        LET u == ParseInt(Trim(lastLine), FALSE, 32)
        IN  IF u.ok THEN TakenAs(u.val) ELSE ~Accepted /\ Refused

(* C7: a read that reports end of stream ends the call abnormally. *)
C7_EofIsFatal == lastRead = "eof" => pc = "panic"

(* C8: a failed flush or a failed read ends the call at that step: the     *)
(* step writes nothing, consumes nothing and returns nothing, and no step  *)
(* follows it.                                                             *)
C8_IoFailureAborts ==
    [][ /\ pc # "panic"
        /\ (lastFlush' = "fail" \/ lastRead' = "err") =>
              /\ pc' = "panic"
              /\ out' = out
              /\ consumed' = consumed
              /\ ret' = NoValue ]_vars

(* C8 witness: the stream failed on a retry, after a rejected line. *)
C8_Witness ==
    /\ pc = "panic"
    /\ panic \in {"flush", "read"}
    /\ consumed >= 1
    /\ ret = NoValue

BoolTokens == {<<"t", "r", "u", "e">>, <<"f", "a", "l", "s", "e">>}

(* C9: read_bool takes a line exactly when its trimmed, lower-cased        *)
(* content is "true" or "false", and returns that truth value.             *)
C9_BoolCaseInsensitive ==
    (reader = "read_bool" /\ lastRead = "line") =>
        LET tok == ToLowercase(Trim(lastLine))
        IN  IF tok \in BoolTokens
            THEN TakenAs(Value("bool", FALSE,
                               IF tok = <<"t", "r", "u", "e">> THEN <<"true">> ELSE <<"false">>, 0))
            ELSE ~Accepted /\ Refused

(* C9 witness: "tRuE" returned true on the second line. *)
C9_Witness ==
    /\ reader = "read_bool"
    /\ pc = "done"
    /\ consumed = 2
    /\ lastLine = <<"t", "R", "u", "E", "\n">>
    /\ ret = Value("bool", FALSE, <<"true">>, 0)

(* C10: an integer reader takes a line exactly when its trimmed content is *)
(* a base-10 integer in the range of the reader's type, and returns it.    *)
C10_RangeEnforcement ==
    (reader \in IntReaders /\ lastRead = "line") =>
        LET n == ParseInt(Trim(lastLine), reader \in SignedReaders, Bits(reader))
        IN  IF n.ok THEN TakenAs(n.val) ELSE ~Accepted /\ Refused

----------------------------------------------------------------------------
(* The default message of a reader's own type, after the pattern           *)
(* "Please enter a valid <kind> (<width> bits)." of the interface.         *)

KindWord(r) ==
    CASE r \in SignedReaders -> "number"
      [] r \in UnsignedReaders -> "positive number"
      [] r \in FloatReaders -> "real number"

WidthWord(r) ==
    CASE r \in {"read_i8", "read_u8"} -> "8"
      [] r \in {"read_i16", "read_u16"} -> "16"
      [] r \in {"read_i32", "read_u32", "read_f32"} -> "32"
      [] r \in {"read_i64", "read_u64", "read_f64"} -> "64"
      [] r \in {"read_i128", "read_u128"} -> "128"
      [] r \in {"read_isize", "read_usize"} -> "32/64"

OwnDefault(r) ==
    IF r = "read_bool"
    THEN "Please enter a valid boolean value (true / false)."
    ELSE "Please enter a valid " \o KindWord(r) \o " (" \o WidthWord(r) \o " bits)."

(* The message the caller asked for. *)
ExpectedMessage == IF err_msg.some THEN err_msg.text ELSE OwnDefault(reader)

(* Every message text a reader could display. *)
AllMessages == {OwnDefault(r) : r \in LoopReaders} \cup {e.text : e \in ErrMsgs \ {None}}

(* What a step appends to the output. *)
Written(o1, o2) == SubSeq(o2, Len(o1) + 1, Len(o2))

Separator == WriteLine(<<"---">>)

(* A step of a numeric or boolean reader writes the expected message      *)
(* before each separator, at most once, and no other message.              *)
ErrorMessageStep ==
    reader \in LoopReaders =>
        LET w == Written(out, out')
        IN  /\ \A i \in 1..Len(w) :
                  /\ w[i] = Separator =>
                        i > 1 /\ w[i - 1] = WriteLine(<<ExpectedMessage>>)
                  /\ \A t \in AllMessages \ {ExpectedMessage} : w[i] # WriteLine(<<t>>)
            /\ Cardinality({i \in 1..Len(w) : w[i] = Separator}) <= 1
            /\ Cardinality({i \in 1..Len(w) : w[i] = WriteLine(<<ExpectedMessage>>)}) <= 1

(* C11: what a numeric or boolean reader displays for a rejected line is   *)
(* the caller's error text when one is given and the default of the        *)
(* reader's own type otherwise, once, and no other message with it.        *)
C11_DefaultVsCustomError == [][ErrorMessageStep]_vars

(* C11 witness: read_u16 without a custom error has shown its own default, *)
(* and nothing else, for one rejected line.                                *)
C11_Witness ==
    /\ reader = "read_u16"
    /\ ~err_msg.some
    /\ ~msg.some
    /\ consumed = 1
    /\ out = <<WriteLine(<<"Please enter a valid positive number (16 bits).">>), Separator>>

(* Number of print! writes so far. *)
PromptCount == Cardinality({i \in 1..Len(out) : out[i].op = "print"})

(* The call is inside flush_and_read, before the line is read. *)
AboutToRead == pc \in {"flush", "read"}

(* C12: with a prompt, the last thing written before every read is the     *)
(* prompt text, without newline, written once for that read; without a     *)
(* prompt no prompt text is ever written.                                  *)
C12_PromptPlacement ==
    IF msg.some
    THEN /\ AboutToRead =>
               /\ out # <<>>
               /\ out[Len(out)] = WriteText(<<msg.text>>)
         /\ PromptCount = reads + (IF AboutToRead \/ panic = "flush" THEN 1 ELSE 0)
    ELSE PromptCount = 0

(* C12 witness: the prompt was written again for the third read. *)
C12_Witness ==
    /\ msg.some
    /\ pc = "read"
    /\ reads = 2
    /\ PromptCount = 3
    /\ out[Len(out)] = WriteText(<<"Enter: ">>)

(* The writes the specification allows a call: its prompt, an error        *)
(* message, the separator.                                                 *)
AllowedWrites ==
    (IF msg.some THEN {WriteText(<<msg.text>>)} ELSE {})
        \cup {WriteLine(<<t>>) : t \in AllMessages}
        \cup {Separator}

(* C13: a call writes nothing but its prompt, error messages and '---'     *)
(* lines; without a prompt, a call that ends on its first line has written *)
(* nothing.                                                                *)
C13_OnlyPromptErrorSeparator ==
    /\ \A i \in 1..Len(out) : out[i] \in AllowedWrites
    /\ (~msg.some /\ reads = 1 /\ lastRead = "line" /\ Accepted) => out = <<>>

(* C14: read_string and read_string_untrimmed read once: a line that was   *)
(* read is the only one consumed, nothing is displayed for it, and the     *)
(* call goes on to return.                                                 *)
C14_StringReadersNeverRetry ==
    reader \in StringReaders =>
        /\ reads <= 1
        /\ consumed <= 1
        /\ \A i \in 1..Len(out) : out[i].op # "println"
        /\ panic # "unwrap"
        /\ lastRead = "line" => Accepted /\ consumed = 1

(* C14 witness: read_string returned after its single line. *)
C14_Witness ==
    /\ reader = "read_string"
    /\ pc = "done"
    /\ consumed = 1
    /\ lastLine = <<"h", "e", "l", "l", "o", "\n">>
    /\ ret = Value("string", FALSE, <<"h", "e", "l", "l", "o">>, 0)

(* t is l without its leading and trailing whitespace: a slice of l with   *)
(* only whitespace outside it and none at its two ends.                    *)
IsTrimOf(t, l) ==
    \E i \in 1..(Len(l) + 1) : \E j \in (i - 1)..Len(l) :
        /\ t = SubSeq(l, i, j)
        /\ \A k \in 1..(i - 1) : l[k] \in WhiteSpace
        /\ \A k \in (j + 1)..Len(l) : l[k] \in WhiteSpace
        /\ t # <<>> => t[1] \notin WhiteSpace /\ t[Len(t)] \notin WhiteSpace

(* C15: read_string_untrimmed returns the line as read, terminator         *)
(* included; read_string returns it without leading and trailing           *)
(* whitespace, which is the trim of what read_string_untrimmed returns     *)
(* for the same line.                                                      *)
C15_StringResults ==
    (reader \in StringReaders /\ pc = "done" /\ lastRead = "line") =>
        /\ ret.kind = "string"
        /\ reader = "read_string_untrimmed" => ret.text = lastLine
        /\ reader = "read_string" =>
              /\ IsTrimOf(ret.text, lastLine)
              /\ IsTrimOf(ret.text, FinalParse("read_string_untrimmed", lastLine).val.text)

(* C15 witness: read_string returned "x y" for " x y \r\n". *)
C15_Witness ==
    /\ reader = "read_string"
    /\ pc = "done"
    /\ lastLine = <<" ", "x", " ", "y", " ", "\r", "\n">>
    /\ ret.text = <<"x", " ", "y">>

HasText(l) == \E i \in 1..Len(l) : l[i] \notin WhiteSpace

(* The first character of l that is not whitespace. *)
FirstTextChar(l) ==
    l[CHOOSE i \in 1..Len(l) :
          l[i] \notin WhiteSpace /\ \A k \in 1..(i - 1) : l[k] \in WhiteSpace]

(* C16: for a line with text, read_char takes that one line and returns    *)
(* the first character of its trimmed content.                             *)
C16_CharacterSelection ==
    (reader = "read_char" /\ lastRead = "line" /\ HasText(lastLine)) =>
        /\ consumed = 1
        /\ reads = 1
        /\ Accepted
        /\ panic = "none"
        /\ pc = "done" => ret = Value("char", FALSE, <<FirstTextChar(lastLine)>>, 0)

(* C16 witness: read_char returned 'h' for "hello". *)
C16_Witness ==
    /\ reader = "read_char"
    /\ pc = "done"
    /\ lastLine = <<"h", "e", "l", "l", "o", "\n">>
    /\ ret = Value("char", FALSE, <<"h">>, 0)

SeparatorCount == Cardinality({i \in 1..Len(out) : out[i] = Separator})

MessageCount == Cardinality({i \in 1..Len(out) : out[i] = WriteLine(<<ExpectedMessage>>)})

(* C17: in a numeric or boolean reader every line that did not end the     *)
(* call has been followed by one error message and one separator by the    *)
(* time the call goes round again, and the line that ended it by none:     *)
(* messages = lines consumed - 1 once the loop is left.                    *)
C17_OneErrorPerRejectedLine ==
    (reader \in LoopReaders /\ consumed >= 1 /\ reads = consumed) =>
        /\ Retrying => SeparatorCount = consumed /\ MessageCount = consumed
        /\ Accepted => SeparatorCount = consumed - 1 /\ MessageCount = consumed - 1

(* A read starts right after a successful flush that left nothing          *)
(* unflushed, and nothing is written in between.                           *)
FlushBeforeReadStep ==
    /\ reads' # reads =>
           /\ pc = "read"
           /\ lastFlush = "ok"
           /\ flushed = Len(out)
    /\ (pc' = "read" /\ pc # "read") =>
           /\ pc = "flush"
           /\ lastFlush' = "ok"
           /\ out' = out
           /\ flushed' = Len(out')

(* C18: every line read is immediately preceded by a flush of stdout, so   *)
(* all that was written before it has been flushed when the call blocks.   *)
C18_FlushBeforeRead == [][FlushBeforeReadStep]_vars

(* C18 witness: at the second read the prompt, the error message, the      *)
(* separator and the second prompt are all flushed.                        *)
C18_Witness ==
    /\ pc = "read"
    /\ msg.some
    /\ reads = 1
    /\ Len(out) = 4
    /\ flushed = 4
    /\ lastFlush = "ok"

(* The buffer holds nothing, or the last line read, or (read_bool) its     *)
(* normalised form.                                                        *)
HoldsLastLineOnly ==
    \/ input = <<>>
    \/ input = lastLine
    \/ reader = "read_bool" /\ input = ToLowercase(Trim(lastLine))

(* C19 as stated: the buffer is empty before every read and at every point *)
(* holds at most the content of the most recently consumed line.           *)
C19_BufferHoldsLastLineOnly ==
    /\ AboutToRead => input = <<>>
    /\ HoldsLastLineOnly

(* read_char enters with the placeholder "." in its buffer. *)
CharPlaceholder == reader = "read_char" /\ reads = 0 /\ pc = "body" /\ input = <<".">>

(* C19 amended: the buffer is empty before every read and, from the first  *)
(* clear on, holds at most the content of the most recently consumed line; *)
(* before it read_char's buffer holds its placeholder ".".                 *)
C19_BufferAfterFirstClear ==
    /\ AboutToRead => input = <<>>
    /\ HoldsLastLineOnly \/ CharPlaceholder

(* C19 witness: the buffer is empty again before the second read, after a  *)
(* rejected line.                                                          *)
C19_Witness ==
    /\ pc = "read"
    /\ reads = 1
    /\ consumed = 1
    /\ lastLine # <<>>
    /\ input = <<>>

(* What one iteration makes of a line: whether the call ends on it (the    *)
(* loop is left; read_char always ends) and what the last expression then  *)
(* yields.                                                                 *)
LineOutcome(r, m, line) ==
    LET inp   == IF r = "read_bool" THEN BoolNormalize(line) ELSE line
        taken == r \notin LoopReaders \/ WhileParse(r, m, inp).ok
    IN  [taken |-> taken, res |-> IF taken THEN FinalParse(r, inp) ELSE Err]

LeadingPads == {<<>>, <<" ">>, <<"\t">>, <<" ", " ">>}

TrailingPads == {<<>>, <<" ">>, <<"\n">>, <<"\r", "\n">>, <<" ", "\r", "\n">>}

(* C20: in the numeric readers, read_bool and read_char what the call      *)
(* makes of the line it read is what LineOutcome says, and LineOutcome is  *)
(* the same for the line stripped of its surrounding whitespace and for    *)
(* the line with whitespace (line terminators included) added around it.   *)
C20_WhitespaceInvariance ==
    (reader \in ValidatingReaders /\ lastRead = "line") =>
        LET o == LineOutcome(reader, msg, lastLine)
        IN  /\ Retrying => ~o.taken
            /\ (pc = "done" \/ panic = "unwrap") => o.taken
            /\ pc = "done" => o.res = Ok(ret)
            /\ panic = "unwrap" => ~o.res.ok
            /\ LineOutcome(reader, msg, Trim(lastLine)) = o
            /\ \A pre \in LeadingPads : \A post \in TrailingPads :
                  LineOutcome(reader, msg, pre \o lastLine \o post) = o

(* C20 witness: read_i32 returned 42 for " 42 \r\n". *)
C20_Witness ==
    /\ reader = "read_i32"
    /\ pc = "done"
    /\ lastLine = <<" ", "4", "2", " ", "\r", "\n">>
    /\ ret = Value("int", FALSE, <<"4", "2">>, 0)

(* A base-10 number: an optional sign, digits with at most one decimal     *)
(* point and at least one digit, and an optional exponent (e or E, an      *)
(* optional sign, digits).                                                 *)
DecimalShape(n) ==
    LET body   == IF n # <<>> /\ Head(n) \in {"+", "-"} THEN Tail(n) ELSE n
        epos   == FirstIn(body, {"e", "E"})
        number == IF epos = 0 THEN body ELSE SubSeq(body, 1, epos - 1)
        expo   == IF epos = 0 THEN <<>> ELSE SubSeq(body, epos + 1, Len(body))
        edig   == IF expo # <<>> /\ Head(expo) \in {"+", "-"} THEN Tail(expo) ELSE expo
        dots   == Cardinality({i \in 1..Len(number) : number[i] = "."})
        digs   == Cardinality({i \in 1..Len(number) : number[i] \in DigitChars})
    IN  /\ dots <= 1
        /\ digs >= 1
        /\ dots + digs = Len(number)
        /\ epos # 0 => (edig # <<>> /\ AllDigits(edig))

(* C21: a float reader that has consumed a line whose normalized content   *)
(* is not a base-10 number (a word such as inf, infinity or nan included)  *)
(* does not take the line: it neither leaves the loop nor returns on it.   *)
C21_DecimalShapeOnly ==
    (reader \in FloatReaders /\ lastRead = "line"
        /\ ~DecimalShape(Normalized(reader, lastLine))) =>
        ~Accepted /\ Refused

----------------------------------------------------------------------------
(* Two threads of one process, each inside one call of a reader with a     *)
(* prompt.  io::stdout() and io::stdin() are process-wide: every print!    *)
(* appends to the one stdout buffer, flush() writes all of it to the       *)
(* terminal, and read_line takes the next line of the one stdin, whichever *)
(* thread asks.  Each stream call locks its stream for that call only.     *)
(* The user answers a prompt that shows on the terminal, and stdin stays   *)
(* open (Spec has the end of stream).                                      *)

Threads == {1, 2}

ThreadReaders == {"read_i32", "read_string"}

ThreadPrompt(t) == IF t = 1 THEN Some("A: ") ELSE Some("B: ")

ThreadLines == {<<"7", "\n">>, <<"x", "\n">>}

(* Number of read_line calls one thread may make. *)
MaxThreadReads == 2

(* The single call of Spec is not running. *)
NoSingleCall ==
    /\ reader = "none"
    /\ msg = None
    /\ err_msg = None
    /\ input = <<>>
    /\ pc = "none"
    /\ ret = NoValue
    /\ panic = "none"
    /\ out = <<>>
    /\ flushed = 0
    /\ lastFlush = "none"
    /\ lastRead = "none"
    /\ lastLine = <<>>
    /\ reads = 0
    /\ consumed = 0

(* A write to stdout by thread t. *)
By(t, ws) == [i \in 1..Len(ws) |-> [by |-> t, w |-> ws[i]]]

(* Prompts of thread t that show on the terminal. *)
PromptsShown(t) ==
    Cardinality({i \in 1..stdout_flushed :
                    stdout[i] = [by |-> t, w |-> WriteText(<<ThreadPrompt(t).text>>)]})

ThreadInit ==
    /\ NoSingleCall
    /\ \E rs \in [Threads -> ThreadReaders] :
          threads = [t \in Threads |->
                       [reader |-> rs[t], msg |-> ThreadPrompt(t), err_msg |-> None,
                        input |-> <<>>,
                        pc |-> IF rs[t] \in LoopReaders THEN "while" ELSE "body",
                        ret |-> NoValue, panic |-> "none", reads |-> 0, from |-> 0]]
    /\ stdout = <<>>
    /\ stdout_flushed = 0
    /\ stdin = <<>>
    /\ answers = [t \in Threads |-> 0]

(* while <parse>.is_err() *)
ThreadWhileTest(t) ==
    /\ threads[t].pc = "while"
    /\ threads' = [threads EXCEPT ![t].pc =
                     IF WhileParse(threads[t].reader, threads[t].msg, threads[t].input).ok
                     THEN "final" ELSE "body"]
    /\ UNCHANGED <<stdout, stdout_flushed, stdin, answers, single>>

(* input.clear(); print!("{}", msg.unwrap()) *)
ThreadBody(t) ==
    /\ threads[t].pc = "body"
    /\ threads[t].reads < MaxThreadReads
    /\ threads' = [threads EXCEPT
                     ![t].input = IF threads[t].reader \in StringReaders THEN @ ELSE <<>>,
                     ![t].pc = "flush"]
    /\ stdout' = stdout \o By(t, <<WriteText(<<threads[t].msg.text>>)>>)
    /\ UNCHANGED <<stdout_flushed, stdin, answers, single>>

(* io::stdout().flush().unwrap(): all that any thread has written shows. *)
ThreadFlushOk(t) ==
    /\ threads[t].pc = "flush"
    /\ stdout_flushed' = Len(stdout)
    /\ threads' = [threads EXCEPT ![t].pc = "read"]
    /\ UNCHANGED <<stdout, stdin, answers, single>>

ThreadFlushFail(t) ==
    /\ threads[t].pc = "flush"
    /\ threads' = [threads EXCEPT ![t].pc = "panic", ![t].panic = "flush"]
    /\ UNCHANGED <<stdout, stdout_flushed, stdin, answers, single>>

(* read_line handing a thread only the lines typed in answer to it. *)
ThreadReadLineOwn(t) ==
    /\ threads[t].pc = "read"
    /\ stdin # <<>>
    /\ Head(stdin).to = t
    /\ threads' = [threads EXCEPT
                     ![t].input = @ \o Head(stdin).line,
                     ![t].from = Head(stdin).to,
                     ![t].reads = @ + 1,
                     ![t].pc = AfterRead(threads[t].reader)]
    /\ stdin' = Tail(stdin)
    /\ UNCHANGED <<stdout, stdout_flushed, answers, single>>

(* io::stdin().read_line(input): the next line of stdin, once there is     *)
(* one, is appended to the buffer of the thread that asked.                *)
ThreadReadLine(t) ==
    /\ threads[t].pc = "read"
    /\ stdin # <<>>
    /\ threads' = [threads EXCEPT
                     ![t].input = @ \o Head(stdin).line,
                     ![t].from = Head(stdin).to,
                     ![t].reads = @ + 1,
                     ![t].pc = AfterRead(threads[t].reader)]
    /\ stdin' = Tail(stdin)
    /\ UNCHANGED <<stdout, stdout_flushed, answers, single>>

(* read_line returns Err: .expect("Unable to read from stdin.") panics. *)
ThreadReadErr(t) ==
    /\ threads[t].pc = "read"
    /\ threads' = [threads EXCEPT
                     ![t].reads = @ + 1,
                     ![t].pc = "panic",
                     ![t].panic = "read"]
    /\ UNCHANGED <<stdout, stdout_flushed, stdin, answers, single>>

(* The if after flush_and_read: show_error_message, whose println! writes  *)
(* the stdout buffer through.                                              *)
ThreadCheck(t) ==
    /\ threads[t].pc = "check"
    /\ LET shown == IF IfParse(threads[t].reader, threads[t].msg, threads[t].input).ok
                    THEN <<>>
                    ELSE show_error_message(threads[t].err_msg,
                                            DefaultError(threads[t].reader))
       IN  /\ stdout' = stdout \o By(t, shown)
           /\ stdout_flushed' = IF shown = <<>> THEN stdout_flushed ELSE Len(stdout')
    /\ threads' = [threads EXCEPT ![t].pc = "while"]
    /\ UNCHANGED <<stdin, answers, single>>

(* The last expression: the value is returned, or unwrap panics. *)
ThreadFinal(t) ==
    /\ threads[t].pc = "final"
    /\ LET r == FinalParse(threads[t].reader, threads[t].input)
       IN  threads' = IF r.ok
                      THEN [threads EXCEPT ![t].ret = r.val, ![t].pc = "done"]
                      ELSE [threads EXCEPT ![t].pc = "panic", ![t].panic = "unwrap"]
    /\ UNCHANGED <<stdout, stdout_flushed, stdin, answers, single>>

(* The user types a line in answer to a prompt of thread t that shows on   *)
(* the terminal and has no answer yet.                                     *)
UserTypes(t) ==
    /\ answers[t] < PromptsShown(t)
    /\ \E l \in ThreadLines : stdin' = Append(stdin, [line |-> l, to |-> t])
    /\ answers' = [answers EXCEPT ![t] = @ + 1]
    /\ UNCHANGED <<threads, stdout, stdout_flushed, single>>

ThreadNext ==
    \E t \in Threads :
        \/ ThreadWhileTest(t)
        \/ ThreadBody(t)
        \/ ThreadFlushOk(t)
        \/ ThreadFlushFail(t)
        \/ ThreadReadLine(t)
        \/ ThreadReadErr(t)
        \/ ThreadCheck(t)
        \/ ThreadFinal(t)
        \/ UserTypes(t)

ThreadSpec == ThreadInit /\ [][ThreadNext]_vars

(* The other thread. *)
Other(t) == CHOOSE u \in Threads : u # t

(* Thread t has written its prompt and has not yet read the answer. *)
BetweenPromptAndRead(t) == threads[t].pc \in {"flush", "read"}

(* C22: concurrent calls are not coordinated.  While one thread is between *)
(* its prompt and its read, the other thread is free to write its own      *)
(* prompt and to take the line that waits in stdin, whichever prompt that  *)
(* line answers; so a line typed in answer to one call's prompt can be     *)
(* consumed by the other call.                                             *)
C22_CallsNotCoordinated ==
    \A t \in Threads :
        BetweenPromptAndRead(t) =>
            /\ (threads[Other(t)].pc = "body" /\ threads[Other(t)].reads < MaxThreadReads)
                  => ENABLED ThreadBody(Other(t))
            /\ (threads[Other(t)].pc = "read" /\ stdin # <<>>)
                  => ENABLED ThreadReadLine(Other(t))

(* C22 witness: thread 1 is still waiting at read_line for the answer to   *)
(* its prompt "A: " while thread 2 has returned 7 from the line the user   *)
(* typed in answer to "A: ".                                               *)
C22_Witness ==
    /\ threads[1].pc = "read"
    /\ threads[1].reads = 0
    /\ answers[1] = 1
    /\ stdin = <<>>
    /\ threads[2].reader = "read_i32"
    /\ threads[2].pc = "done"
    /\ threads[2].from = 1
    /\ threads[2].ret = Value("int", FALSE, <<"7">>, 0)

----------------------------------------------------------------------------
(* The same call in the other prompt mode. *)
Twin(m) == IF m.some THEN None ELSE Some("Enter: ")

(* What one iteration writes after reading a line, the prompt apart:       *)
(* read_bool's echo in its no-prompt branch and show_error_message.        *)
LineWrites(r, m, e, line) ==
    IF r \notin LoopReaders THEN <<>>
    ELSE LET inp == IF r = "read_bool" THEN BoolNormalize(line) ELSE line
         IN  (IF r = "read_bool" /\ ~m.some THEN <<WriteLine(inp)>> ELSE <<>>)
             \o (IF IfParse(r, m, inp).ok THEN <<>>
                 ELSE show_error_message(e, DefaultError(r)))

NotPrompt(w) == ~(msg.some /\ w = WriteText(<<msg.text>>))

(* C23: what the call makes of the line it read (goes round again, returns *)
(* a value, unwinds) and what it writes besides the prompt are what the    *)
(* same call in the other prompt mode makes of that line and writes.       *)
C23_PromptIndependence ==
    lastRead = "line" =>
        LET w == LineOutcome(reader, Twin(msg), lastLine)
        IN  /\ Retrying => ~w.taken
            /\ pc = "done" => w.taken /\ w.res = Ok(ret)
            /\ panic = "unwrap" => w.taken /\ ~w.res.ok
            /\ (reads = 1 /\ pc # "check") =>
                  SelectSeq(out, NotPrompt)
                     = LineWrites(reader, Twin(msg), err_msg, lastLine)

(* C24: a reader that has returned has consumed at least one line, the     *)
(* last read having delivered one, and a looping reader leaves its loop    *)
(* only on a consumed line: the initial buffer content is neither accepted *)
(* nor returned.                                                           *)
C24_NoReturnWithoutLine ==
    /\ pc = "done" => consumed >= 1 /\ lastRead = "line"
    /\ (reader \in LoopReaders /\ pc = "final") => consumed >= 1 /\ lastRead = "line"

====
